---- MODULE Spec2Model ----
(***************************************************************************)
(* belle: the Button and Placeholder components.                           *)
(*                                                                         *)
(* One component instance is followed through its life: mount, props       *)
(* updates, DOM events and unmount.  A DOM event is dispatched by React    *)
(* inside a batch: the handler runs to its end, then the update it asked   *)
(* for (setState / forceUpdate) is rendered and componentDidUpdate runs.   *)
(* Every action below is one such dispatch, and `trace` lists the steps    *)
(* the dispatch went through, in order.                                    *)
(*                                                                         *)
(* A JavaScript object is a function from the set of its own keys; a key   *)
(* that is not in the DOMAIN is undefined.                                 *)
(***************************************************************************)
EXTENDS Naturals, Sequences, FiniteSets

VARIABLES
    component,      \* which component this instance is: "Button" or "Placeholder"
    lifecycle,      \* "unmounted" or "mounted"
    props,          \* this.props (defaultProps resolved)
    state,          \* this.state
    focused,        \* this.focused
    mouseDownOnButton,                  \* this.mouseDownOnButton
    preventFocusStyleForTouchAndClick,  \* this.preventFocusStyleForTouchAndClick
    styleId,        \* this.styleId
    registry,       \* the rules held by the style-injection service
    rendered,       \* what the last render() returned, and the branch it took
    lastEvent,      \* the event the last action dispatched
    trace,          \* the steps of the last dispatch, in order
    pressedSinceRender, \* history: the mouse buttons of the onMouseDown events
                        \* dispatched since the last render
    touchHeld,      \* history: a touchstart with one touch point was dispatched
                    \* to the enabled Button, and no touchend, touchcancel or
                    \* blur since
    instances       \* the Buttons mounted side by side (several instances):
                    \* instance number |-> its fields and its last render

vars == <<component, lifecycle, props, state, focused, mouseDownOnButton,
          preventFocusStyleForTouchAndClick, styleId, registry, rendered,
          lastEvent, trace, pressedSinceRender, touchHeld, instances>>

-----------------------------------------------------------------------------
(* Bounds of the model *)

\* at most this many props differ from the component's defaultProps
MaxProps == 2

\* a touchstart carries 1..MaxTouches touch points
MaxTouches == 2

\* at most this many Buttons are mounted side by side
MaxInstances == 2

\* event.button of a mousedown: the primary button (0) and the secondary one (2)
MouseButtons == {0, 2}

-----------------------------------------------------------------------------
(* JavaScript objects *)

EmptyObject == [k \in {} |-> TRUE]

\* has(obj, key) of utils/helpers
has(obj, key) == key \in DOMAIN obj

\* omit(obj, keys) of utils/helpers: obj without the given keys
omit(obj, keys) == [k \in (DOMAIN obj) \ keys |-> obj[k]]

\* { ...a, ...b }: the keys of both, b winning on the keys they share
Spread(a, b) ==
    [k \in (DOMAIN a) \cup (DOMAIN b) |-> IF k \in DOMAIN b THEN b[k] ELSE a[k]]

\* obj[key] for spreading: spreading undefined adds nothing
StyleProp(obj, key) == IF has(obj, key) THEN obj[key] ELSE EmptyObject

-----------------------------------------------------------------------------
(* Style tables.  Every value names the table it comes from, so that the    *)
(* layer a rendered property was taken from can be read off the result.    *)

BaseKeys == {"color", "background", "border", "boxShadow"}
LayerKeys == {"border", "boxShadow"}

\* style/button
style ==
    [ style                     |-> [k \in BaseKeys |-> "style"],
      primaryStyle              |-> [k \in BaseKeys |-> "primaryStyle"],
      hoverStyle                |-> [k \in LayerKeys |-> "hoverStyle"],
      primaryHoverStyle         |-> [k \in LayerKeys |-> "primaryHoverStyle"],
      focusStyle                |-> [k \in LayerKeys |-> "focusStyle"],
      primaryFocusStyle         |-> [k \in LayerKeys |-> "primaryFocusStyle"],
      activeStyle               |-> [k \in LayerKeys |-> "activeStyle"],
      primaryActiveStyle        |-> [k \in LayerKeys |-> "primaryActiveStyle"],
      disabledStyle             |-> [k \in LayerKeys |-> "disabledStyle"],
      primaryDisabledStyle      |-> [k \in LayerKeys |-> "primaryDisabledStyle"],
      disabledHoverStyle        |-> [k \in LayerKeys |-> "disabledHoverStyle"],
      primaryDisabledHoverStyle |-> [k \in LayerKeys |-> "primaryDisabledHoverStyle"] ]

\* style/placeholder
placeholderStyle ==
    [ style         |-> [k \in BaseKeys |-> "style"],
      disabledStyle |-> [k \in LayerKeys |-> "disabledStyle"] ]

\* config/button
config == [ preventFocusStyleForTouchAndClick |-> TRUE ]

-----------------------------------------------------------------------------
(* Props *)

StyleProps == {"style", "hoverStyle", "focusStyle", "activeStyle",
               "disabledStyle", "disabledHoverStyle"}

HandlerProps == {"onTouchStart", "onTouchEnd", "onTouchCancel",
                 "onMouseDown", "onFocus", "onBlur"}

ButtonPropKeys ==
    StyleProps \cup HandlerProps \cup
    {"className", "primary", "disabled", "type",
     "preventFocusStyleForTouchAndClick", "title"}

PlaceholderPropKeys == {"style", "disabledStyle", "_isDisabled", "className", "title"}

\* Button.defaultProps
buttonDefaultProps == [primary |-> FALSE, disabled |-> FALSE, type |-> "button"]

\* Placeholder.defaultProps
placeholderDefaultProps == [_isDisabled |-> FALSE]

DefaultProps(c) == IF c = "Button" THEN buttonDefaultProps ELSE placeholderDefaultProps

PropKeys(c) == IF c = "Button" THEN ButtonPropKeys ELSE PlaceholderPropKeys

\* the values a caller gives a prop (other than the default)
PropValues(key) ==
    CASE key = "style" -> {[k \in {"background", "border", "boxShadow"} |-> "props.style"]}
      [] key \in StyleProps -> {[k \in {"boxShadow"} |-> "props." \o key]}
      [] key \in HandlerProps -> {"callback"}
      [] key = "className" -> {"custom"}
      [] key \in {"primary", "disabled", "_isDisabled"} -> {TRUE}
      [] key = "preventFocusStyleForTouchAndClick" -> {TRUE, FALSE}
      [] key = "type" -> {"submit", "bogus"}
      [] key = "title" -> {"a"}

\* the caller gives prop `key` the value `value`
WithProp(p, key, value) ==
    [k \in (DOMAIN p) \cup {key} |-> IF k = key THEN value ELSE p[k]]

\* the caller leaves prop `key` out: React takes it from defaultProps
WithoutProp(c, p, key) ==
    IF key \in DOMAIN DefaultProps(c)
    THEN WithProp(p, key, DefaultProps(c)[key])
    ELSE omit(p, {key})

NonDefault(c, p) ==
    {k \in DOMAIN p : ~(k \in DOMAIN DefaultProps(c) /\ p[k] = DefaultProps(c)[k])}

\* the props one change of one prop away from p (p itself among them)
NextProps(c, p) ==
    {q \in {WithoutProp(c, p, key) : key \in PropKeys(c)}
           \cup UNION {{WithProp(p, key, v) : v \in PropValues(key)} : key \in PropKeys(c)} :
        Cardinality(NonDefault(c, q)) <= MaxProps}

RECURSIVE PropsWithin(_, _)
PropsWithin(c, n) ==
    IF n = 0 THEN {DefaultProps(c)}
    ELSE UNION {NextProps(c, p) : p \in PropsWithin(c, n - 1)}

\* every props value the model mounts a component with
ButtonProps == PropsWithin("Button", MaxProps)
PlaceholderProps == PropsWithin("Placeholder", MaxProps)

-----------------------------------------------------------------------------
(* Collaborators of the components *)

\* injectStyles(styles) of utils/inject-style: the rules are added to the registry
injectStyles(reg, styles) == reg \o styles

\* removeStyle(id) of utils/inject-style: every rule under the id is dropped
removeStyle(reg, id) == SelectSeq(reg, LAMBDA rule : rule.id # id)

\* unionClassNames(className, styleId) of utils/union-class-names: the class
\* names of both, an undefined className adding none
unionClassNames(p, sid) ==
    IF has(p, "className") THEN <<p["className"], sid>> ELSE <<sid>>

\* React's _rootNodeID of an instance, character by character
RootNodeIDs == { <<".", "0", ".", "1">> }

RECURSIVE Join(_)
Join(chars) == IF chars = <<>> THEN "" ELSE Head(chars) \o Join(Tail(chars))

-----------------------------------------------------------------------------
(* Button *)

\* sanitizeChildProps of Button
buttonOmitted ==
    {"className", "style", "hoverStyle", "focusStyle", "activeStyle",
     "disabledStyle", "disabledHoverStyle", "primary", "onTouchStart",
     "onTouchEnd", "onTouchCancel", "onMouseDown", "onFocus", "onBlur"}

sanitizeChildProps(properties) == omit(properties, buttonOmitted)

\* faulty variant: the props' own value is not looked at
PreventFocusStyle_IgnoresProps(properties) == config.preventFocusStyleForTouchAndClick

\* the value the constructor and componentWillReceiveProps give
\* this.preventFocusStyleForTouchAndClick
PreventFocusStyle(properties) ==
    IF has(properties, "preventFocusStyleForTouchAndClick")
    THEN properties["preventFocusStyleForTouchAndClick"]
    ELSE config.preventFocusStyleForTouchAndClick

\* the four rules updatePseudoClassStyle builds
PseudoClassStyles(sid, properties, prevent) ==
    LET baseHoverStyle ==
            IF properties["primary"] THEN style.primaryHoverStyle ELSE style.hoverStyle
        baseActiveStyle ==
            IF properties["primary"] THEN style.primaryActiveStyle ELSE style.activeStyle
        baseDisabledHoverStyle ==
            IF properties["primary"] THEN style.primaryDisabledHoverStyle
            ELSE style.disabledHoverStyle
        hoverStyle == Spread(baseHoverStyle, StyleProp(properties, "hoverStyle"))
        activeStyle == Spread(baseActiveStyle, StyleProp(properties, "activeStyle"))
        disabledHoverStyle ==
            Spread(baseDisabledHoverStyle, StyleProp(properties, "disabledHoverStyle"))
        baseFocusStyle ==
            IF properties["primary"] THEN style.primaryFocusStyle ELSE style.focusStyle
        focusStyle ==
            IF prevent THEN [outline |-> "0"]
            ELSE Spread(baseFocusStyle, StyleProp(properties, "focusStyle"))
    IN  << [id |-> sid, style |-> hoverStyle, pseudoClass |-> "hover"],
           [id |-> sid, style |-> activeStyle, pseudoClass |-> "active"],
           [id |-> sid, style |-> disabledHoverStyle, pseudoClass |-> "hover",
            disabled |-> TRUE],
           [id |-> sid, style |-> focusStyle, pseudoClass |-> "focus"] >>

updatePseudoClassStyle(reg, sid, properties, prevent) ==
    injectStyles(reg, PseudoClassStyles(sid, properties, prevent))

\* componentWillMount: the style-id from React's node id, every "." made a "-"
StyleIdOf(rootNodeID) ==
    "style-id" \o
    Join([i \in 1..Len(rootNodeID) |-> IF rootNodeID[i] = "." THEN "-" ELSE rootNodeID[i]])

\* faulty variant: unmounting drops the rules of every instance
RegistryOnUnmount_RemovesAll(reg, sid) == << >>

\* the registry after componentWillUnmount
RegistryOnUnmount(reg, sid) == removeStyle(reg, sid)

\* faulty variant: the old rules are not removed
RegistryOnReceiveProps_NoRemove(reg, sid, properties, prevent) ==
    updatePseudoClassStyle(reg, sid, properties, prevent)

\* faulty variant: the focus rule is built with the flag of the old props
RegistryOnReceiveProps_OldFlag(reg, sid, properties, prevent) ==
    updatePseudoClassStyle(removeStyle(reg, sid), sid, properties,
                           preventFocusStyleForTouchAndClick)

\* the registry after componentWillReceiveProps(properties)
RegistryOnReceiveProps(reg, sid, properties, prevent) ==
    updatePseudoClassStyle(removeStyle(reg, sid), sid, properties, prevent)

\* faulty variant: childProps are not recomputed
StateOnReceiveProps_Stale(st, properties) == st

\* this.state after componentWillReceiveProps(properties)
StateOnReceiveProps(st, properties) ==
    [st EXCEPT !.childProps = sanitizeChildProps(properties)]

\* faulty variant: this.focused is not reset
componentDidUpdate_KeepsFocused(f, m) == [focused |-> f, mouseDownOnButton |-> FALSE]

\* faulty variant: this.mouseDownOnButton is not reset
componentDidUpdate_KeepsMouseDown(f, m) == [focused |-> FALSE, mouseDownOnButton |-> m]

\* componentDidUpdate: the values of this.focused and this.mouseDownOnButton
componentDidUpdate(f, m) == [focused |-> FALSE, mouseDownOnButton |-> FALSE]

\* render(): baseButtonStyle
BaseButtonStyle(p) ==
    LET baseStyle == IF p["primary"] THEN style.primaryStyle ELSE style.style
    IN  Spread(baseStyle, StyleProp(p, "style"))

\* render(): buttonStyle of a disabled Button
DisabledBranch(p) ==
    [ branch |-> "disabled",
      style |->
        IF p["primary"]
        THEN Spread(Spread(BaseButtonStyle(p), style.primaryDisabledStyle),
                    StyleProp(p, "disabledStyle"))
        ELSE Spread(Spread(BaseButtonStyle(p), style.disabledStyle),
                    StyleProp(p, "disabledStyle")) ]

\* render(): buttonStyle of an active Button
ActiveBranch(p) ==
    LET baseActiveStyle ==
            IF p["primary"] THEN style.primaryActiveStyle ELSE style.activeStyle
    IN  [ branch |-> "active",
          style |-> Spread(Spread(BaseButtonStyle(p), baseActiveStyle),
                           StyleProp(p, "activeStyle")) ]

\* render(): buttonStyle with the one-time focus style
FocusBranch(p) ==
    LET baseFocusStyle ==
            IF p["primary"] THEN style.primaryFocusStyle ELSE style.focusStyle
    IN  [ branch |-> "focus",
          style |-> Spread(Spread(BaseButtonStyle(p), baseFocusStyle),
                           StyleProp(p, "focusStyle")) ]

\* render(): buttonStyle = baseButtonStyle
PlainBranch(p) == [ branch |-> "plain", style |-> BaseButtonStyle(p) ]

\* faulty variant: the active state is looked at before disabled
ButtonStyle_ActiveBeforeDisabled(p, active, f, m, prevent) ==
    IF active THEN ActiveBranch(p)
    ELSE IF p["disabled"] THEN DisabledBranch(p)
    ELSE IF f /\ ~active /\ ~m /\ prevent THEN FocusBranch(p)
    ELSE PlainBranch(p)

\* faulty variant: the focus style is looked at before the active state
ButtonStyle_FocusBeforeActive(p, active, f, m, prevent) ==
    IF p["disabled"] THEN DisabledBranch(p)
    ELSE IF f /\ ~m /\ prevent THEN FocusBranch(p)
    ELSE IF active THEN ActiveBranch(p)
    ELSE PlainBranch(p)

\* render(): buttonStyle, and the branch that built it
ButtonStyle(p, active, f, m, prevent) ==
    IF p["disabled"] THEN DisabledBranch(p)
    ELSE IF active THEN ActiveBranch(p)
    ELSE IF f /\ ~active /\ ~m /\ prevent THEN FocusBranch(p)
    ELSE PlainBranch(p)

\* render(): the attributes of the <button> element; childProps are spread last
ButtonElement(p, st, buttonStyle, sid) ==
    Spread([ style |-> buttonStyle,
             className |-> unionClassNames(p, sid),
             onTouchStart |-> "_onTouchStart",
             onTouchEnd |-> "_onTouchEnd",
             onTouchCancel |-> "_onTouchCancel",
             onFocus |-> "_onFocus",
             onBlur |-> "_onBlur",
             onMouseDown |-> "_onMouseDown" ],
           st.childProps)

\* what render() returns, with the branch taken and the instance fields it found
ButtonRender(p, st, f, m, prevent, sid) ==
    LET s == ButtonStyle(p, st.active, f, m, prevent)
    IN  [ element |-> ButtonElement(p, st, s.style, sid),
          branch |-> s.branch,
          focused |-> f,
          mouseDownOnButton |-> m ]

NothingRendered ==
    [element |-> EmptyObject, branch |-> "none", focused |-> FALSE,
     mouseDownOnButton |-> FALSE]

NoEvent == [type |-> "none", arg |-> 0]

\* if (this.props.<hook>) this.props.<hook>(event)
CallHook(p, hook) == IF has(p, hook) THEN << "props." \o hook >> ELSE << >>

\* faulty variant: no re-render is forced
onFocusSteps_NoForceUpdate(p) == << "focused = true" >> \o CallHook(p, "onFocus")

\* the steps of each handler, in the order of its statements
onFocusSteps(p) == << "focused = true", "forceUpdate" >> \o CallHook(p, "onFocus")
onBlurSteps(p) == << "focused = false", "setState active" >> \o CallHook(p, "onBlur")
onMouseDownSteps(p, sets) ==
    (IF sets THEN << "mouseDownOnButton = true" >> ELSE << >>) \o CallHook(p, "onMouseDown")
onTouchStartSteps(p, sets) ==
    (IF sets THEN << "setState active" >> ELSE << >>) \o CallHook(p, "onTouchStart")
\* faulty variant: the caller's hook is not invoked
onTouchEndSteps_NoHook(p) == << "setState active" >>

onTouchEndSteps(p) == << "setState active" >> \o CallHook(p, "onTouchEnd")
onTouchCancelSteps(p) == << "setState active" >> \o CallHook(p, "onTouchEnd")

\* faulty variant: the press is recorded on a disabled Button too
MouseDownSets_IgnoresDisabled(p, button) == button = 0

\* faulty variant: the press of another button is recorded
MouseDownSets_WrongButton(p, button) == button = 2 /\ ~p["disabled"]

\* _onMouseDown: whether the press is recorded
MouseDownSets(p, button) == button = 0 /\ ~p["disabled"]

\* faulty variant: the number of touch points is not looked at
TouchStartSets_AnyTouches(p, touches) == ~p["disabled"]

\* faulty variant: a disabled Button becomes active too
TouchStartSets_IgnoresDisabled(p, touches) == touches = 1

\* _onTouchStart: whether the button becomes active
TouchStartSets(p, touches) == ~p["disabled"] /\ touches = 1

RenderSteps == << "render", "componentDidUpdate" >>

\* the update React runs at the end of a dispatch that asked for one:
\* render(), then componentDidUpdate()
Update(p, st, f, m, prevent) ==
    /\ rendered' = ButtonRender(p, st, f, m, prevent, styleId)
    /\ pressedSinceRender' = {}
    /\ focused' = componentDidUpdate(f, m).focused
    /\ mouseDownOnButton' = componentDidUpdate(f, m).mouseDownOnButton

\* constructor, componentWillMount, first render (no componentDidUpdate)
Mount(properties, rootNodeID) ==
    /\ component = "Button"
    /\ lifecycle = "unmounted"
    /\ lifecycle' = "mounted"
    /\ props' = properties
    /\ preventFocusStyleForTouchAndClick' = PreventFocusStyle(properties)
    /\ state' = [childProps |-> sanitizeChildProps(properties), active |-> FALSE]
    /\ focused' = FALSE
    /\ mouseDownOnButton' = FALSE
    /\ styleId' = StyleIdOf(rootNodeID)
    /\ registry' = updatePseudoClassStyle(registry, styleId', properties,
                                          preventFocusStyleForTouchAndClick')
    /\ rendered' = ButtonRender(props', state', focused', mouseDownOnButton',
                                preventFocusStyleForTouchAndClick', styleId')
    /\ pressedSinceRender' = {}
    /\ lastEvent' = [type |-> "mount", arg |-> 0]
    /\ trace' = << "constructor", "componentWillMount", "render" >>
    /\ UNCHANGED component
    /\ touchHeld' = FALSE
    /\ UNCHANGED instances

\* componentWillReceiveProps(properties), render, componentDidUpdate
ReceiveProps(properties) ==
    /\ component = "Button"
    /\ lifecycle = "mounted"
    /\ preventFocusStyleForTouchAndClick' = PreventFocusStyle(properties)
    /\ state' = StateOnReceiveProps(state, properties)
    /\ registry' = RegistryOnReceiveProps(registry, styleId, properties,
                                          preventFocusStyleForTouchAndClick')
    /\ props' = properties
    /\ Update(props', state', focused, mouseDownOnButton,
              preventFocusStyleForTouchAndClick')
    /\ lastEvent' = [type |-> "props", arg |-> 0]
    /\ trace' = << "componentWillReceiveProps" >> \o RenderSteps
    /\ UNCHANGED <<component, lifecycle, styleId>>
    /\ UNCHANGED <<touchHeld, instances>>

\* componentWillUnmount; the instance is gone afterwards
Unmount ==
    /\ component = "Button"
    /\ lifecycle = "mounted"
    /\ lifecycle' = "unmounted"
    /\ registry' = RegistryOnUnmount(registry, styleId)
    /\ props' = EmptyObject
    /\ state' = EmptyObject
    /\ focused' = FALSE
    /\ mouseDownOnButton' = FALSE
    /\ preventFocusStyleForTouchAndClick' = FALSE
    /\ rendered' = NothingRendered
    /\ lastEvent' = [type |-> "unmount", arg |-> 0]
    /\ trace' = << "componentWillUnmount" >>
    /\ pressedSinceRender' = {}
    /\ UNCHANGED <<component, styleId>>
    /\ touchHeld' = FALSE
    /\ UNCHANGED instances

\* faulty variant: no state is reset on blur
StateOnBlur_KeepsActive(st) == st

\* _onBlur: this.setState({ active: false })
StateOnBlur(st) == [st EXCEPT !.active = FALSE]

\* the handler asked React for an update (setState or forceUpdate)
AsksUpdate(steps) ==
    \E i \in 1..Len(steps) : steps[i] \in {"forceUpdate", "setState active"}

\* this.focused once the handler has run its steps
FocusedAfter(steps, f) ==
    IF \E i \in 1..Len(steps) : steps[i] = "focused = true" THEN TRUE
    ELSE IF \E i \in 1..Len(steps) : steps[i] = "focused = false" THEN FALSE
    ELSE f

OnFocus ==
    /\ component = "Button"
    /\ lifecycle = "mounted"
    /\ IF AsksUpdate(onFocusSteps(props))
       THEN /\ Update(props, state, FocusedAfter(onFocusSteps(props), focused),
                      mouseDownOnButton, preventFocusStyleForTouchAndClick)
            /\ trace' = onFocusSteps(props) \o RenderSteps
       ELSE /\ focused' = FocusedAfter(onFocusSteps(props), focused)
            /\ trace' = onFocusSteps(props)
            /\ UNCHANGED <<rendered, mouseDownOnButton, pressedSinceRender>>
    /\ lastEvent' = [type |-> "focus", arg |-> 0]
    /\ UNCHANGED <<touchHeld, instances>>
    /\ UNCHANGED <<component, lifecycle, props, state,
                   preventFocusStyleForTouchAndClick, styleId, registry>>

OnBlur ==
    /\ component = "Button"
    /\ lifecycle = "mounted"
    /\ state' = StateOnBlur(state)
    /\ Update(props, state', FALSE, mouseDownOnButton, preventFocusStyleForTouchAndClick)
    /\ lastEvent' = [type |-> "blur", arg |-> 0]
    /\ trace' = onBlurSteps(props) \o RenderSteps
    /\ UNCHANGED <<component, lifecycle, props,
                   preventFocusStyleForTouchAndClick, styleId, registry>>
    /\ touchHeld' = FALSE
    /\ UNCHANGED instances

OnMouseDown(button) ==
    /\ component = "Button"
    /\ lifecycle = "mounted"
    /\ mouseDownOnButton' =
         IF MouseDownSets(props, button) THEN TRUE ELSE mouseDownOnButton
    /\ lastEvent' = [type |-> "mouseDown", arg |-> button]
    /\ trace' = onMouseDownSteps(props, MouseDownSets(props, button))
    /\ pressedSinceRender' = pressedSinceRender \cup {button}
    /\ UNCHANGED <<component, lifecycle, props, state, focused,
                   preventFocusStyleForTouchAndClick, styleId, registry, rendered>>
    /\ UNCHANGED <<touchHeld, instances>>

OnTouchStart(touches) ==
    /\ component = "Button"
    /\ lifecycle = "mounted"
    /\ IF TouchStartSets(props, touches)
       THEN /\ state' = [state EXCEPT !.active = TRUE]
            /\ Update(props, state', focused, mouseDownOnButton,
                      preventFocusStyleForTouchAndClick)
            /\ trace' = onTouchStartSteps(props, TRUE) \o RenderSteps
       ELSE /\ trace' = onTouchStartSteps(props, FALSE)
            /\ UNCHANGED <<state, rendered, focused, mouseDownOnButton,
                           pressedSinceRender>>
    /\ lastEvent' = [type |-> "touchStart", arg |-> touches]
    /\ UNCHANGED <<component, lifecycle, props,
                   preventFocusStyleForTouchAndClick, styleId, registry>>
    /\ touchHeld' = (touchHeld \/ (touches = 1 /\ ~props["disabled"]))
    /\ UNCHANGED instances

OnTouchEnd ==
    /\ component = "Button"
    /\ lifecycle = "mounted"
    /\ state' = [state EXCEPT !.active = FALSE]
    /\ Update(props, state', focused, mouseDownOnButton,
              preventFocusStyleForTouchAndClick)
    /\ lastEvent' = [type |-> "touchEnd", arg |-> 0]
    /\ trace' = onTouchEndSteps(props) \o RenderSteps
    /\ UNCHANGED <<component, lifecycle, props,
                   preventFocusStyleForTouchAndClick, styleId, registry>>
    /\ touchHeld' = FALSE
    /\ UNCHANGED instances

OnTouchCancel ==
    /\ component = "Button"
    /\ lifecycle = "mounted"
    /\ state' = [state EXCEPT !.active = FALSE]
    /\ Update(props, state', focused, mouseDownOnButton,
              preventFocusStyleForTouchAndClick)
    /\ lastEvent' = [type |-> "touchCancel", arg |-> 0]
    /\ trace' = onTouchCancelSteps(props) \o RenderSteps
    /\ UNCHANGED <<component, lifecycle, props,
                   preventFocusStyleForTouchAndClick, styleId, registry>>
    /\ touchHeld' = FALSE
    /\ UNCHANGED instances

-----------------------------------------------------------------------------
(* Placeholder *)

\* sanitizeChildProps of Placeholder
placeholderOmitted == {"style", "disabledStyle", "_isDisabled"}

placeholderSanitizeChildProps(properties) == omit(properties, placeholderOmitted)

\* this.state after Placeholder's componentWillReceiveProps(properties)
PlaceholderStateOnReceiveProps(st, properties) ==
    [st EXCEPT !.childProps = placeholderSanitizeChildProps(properties)]

\* faulty variant: the disabled layers are applied whatever _isDisabled is
PlaceholderComputedStyle_AlwaysDisabled(p) ==
    Spread(Spread(Spread(placeholderStyle.style, StyleProp(p, "style")),
                  placeholderStyle.disabledStyle),
           StyleProp(p, "disabledStyle"))

\* render(): computedStyle
PlaceholderComputedStyle(p) ==
    LET computedStyle == Spread(placeholderStyle.style, StyleProp(p, "style"))
    IN  IF p["_isDisabled"]
        THEN Spread(Spread(computedStyle, placeholderStyle.disabledStyle),
                    StyleProp(p, "disabledStyle"))
        ELSE computedStyle

\* what render() returns: the attributes of the <div>, childProps spread last
PlaceholderRender(p, st) ==
    [ element |-> Spread([style |-> PlaceholderComputedStyle(p)], st.childProps),
      branch |-> IF p["_isDisabled"] THEN "disabled" ELSE "plain",
      focused |-> FALSE,
      mouseDownOnButton |-> FALSE ]

PlaceholderMount(properties) ==
    /\ component = "Placeholder"
    /\ lifecycle = "unmounted"
    /\ lifecycle' = "mounted"
    /\ props' = properties
    /\ state' = [childProps |-> placeholderSanitizeChildProps(properties)]
    /\ rendered' = PlaceholderRender(props', state')
    /\ lastEvent' = [type |-> "mount", arg |-> 0]
    /\ trace' = << "constructor", "render" >>
    /\ UNCHANGED <<component, focused, mouseDownOnButton,
                   preventFocusStyleForTouchAndClick, styleId, registry,
                   pressedSinceRender>>
    /\ UNCHANGED <<touchHeld, instances>>

PlaceholderReceiveProps(properties) ==
    /\ component = "Placeholder"
    /\ lifecycle = "mounted"
    /\ state' = PlaceholderStateOnReceiveProps(state, properties)
    /\ props' = properties
    /\ rendered' = PlaceholderRender(props', state')
    /\ lastEvent' = [type |-> "props", arg |-> 0]
    /\ trace' = << "componentWillReceiveProps", "render" >>
    /\ UNCHANGED <<component, lifecycle, focused, mouseDownOnButton,
                   preventFocusStyleForTouchAndClick, styleId, registry,
                   pressedSinceRender>>
    /\ UNCHANGED <<touchHeld, instances>>

\* the Placeholder is unmounted: the class has no componentWillUnmount, so no
\* step of its own runs
PlaceholderUnmount ==
    /\ component = "Placeholder"
    /\ lifecycle = "mounted"
    /\ lifecycle' = "unmounted"
    /\ props' = EmptyObject
    /\ state' = EmptyObject
    /\ rendered' = NothingRendered
    /\ lastEvent' = [type |-> "unmount", arg |-> 0]
    /\ trace' = << >>
    /\ UNCHANGED <<component, focused, mouseDownOnButton,
                   preventFocusStyleForTouchAndClick, styleId, registry,
                   pressedSinceRender>>
    /\ UNCHANGED <<touchHeld, instances>>

-----------------------------------------------------------------------------
(* The state machine *)

Init ==
    /\ component \in {"Button", "Placeholder"}
    /\ lifecycle = "unmounted"
    /\ props = EmptyObject
    /\ state = EmptyObject
    /\ focused = FALSE
    /\ mouseDownOnButton = FALSE
    /\ preventFocusStyleForTouchAndClick = FALSE
    /\ styleId = ""
    /\ registry = << >>
    /\ rendered = NothingRendered
    /\ lastEvent = NoEvent
    /\ trace = << >>
    /\ pressedSinceRender = {}
    /\ touchHeld = FALSE
    /\ instances = EmptyObject

Next ==
    \/ \E properties \in ButtonProps, rootNodeID \in RootNodeIDs :
          Mount(properties, rootNodeID)
    \/ \E properties \in NextProps("Button", props) : ReceiveProps(properties)
    \/ Unmount
    \/ OnFocus
    \/ OnBlur
    \/ \E button \in MouseButtons : OnMouseDown(button)
    \/ \E touches \in 1..MaxTouches : OnTouchStart(touches)
    \/ OnTouchEnd
    \/ OnTouchCancel
    \/ \E properties \in PlaceholderProps : PlaceholderMount(properties)
    \/ \E properties \in NextProps("Placeholder", props) :
          PlaceholderReceiveProps(properties)
    \/ PlaceholderUnmount

Spec == Init /\ [][Next]_vars

-----------------------------------------------------------------------------
(* Several Buttons mounted side by side, sharing the style registry *)

\* React's _rootNodeID of the places a Button is mounted at: the second child
\* of the root, the child of the root with key "a-0", and the first child of
\* the root's child with key "a"
MultiRootNodeIDs ==
    << <<".", "0", ".", "1">>,
       <<".", "0", ".", "$", "a", "-", "0">>,
       <<".", "0", ".", "$", "a", ".", "0">> >>

\* the props that reach the registry and the className
MultiPropKeys == {"primary", "hoverStyle", "className"}

MultiProps == {p \in ButtonProps : NonDefault("Button", p) \subseteq MultiPropKeys}

\* constructor, componentWillMount and first render of the Button at place i
MultiMount(i, properties) ==
    /\ i \notin DOMAIN instances
    /\ Cardinality(DOMAIN instances) < MaxInstances
    /\ LET sid == StyleIdOf(MultiRootNodeIDs[i])
           prevent == PreventFocusStyle(properties)
           st == [childProps |-> sanitizeChildProps(properties), active |-> FALSE]
       IN  /\ registry' = updatePseudoClassStyle(registry, sid, properties, prevent)
           /\ instances' =
                 WithProp(instances, i,
                          [ props |-> properties,
                            state |-> st,
                            preventFocusStyleForTouchAndClick |-> prevent,
                            styleId |-> sid,
                            rendered |-> ButtonRender(properties, st, FALSE, FALSE,
                                                      prevent, sid) ])
    /\ lastEvent' = [type |-> "mount", arg |-> i]
    /\ trace' = << "constructor", "componentWillMount", "render" >>
    /\ UNCHANGED <<component, lifecycle, props, state, focused, mouseDownOnButton,
                   preventFocusStyleForTouchAndClick, styleId, rendered,
                   pressedSinceRender, touchHeld>>

\* componentWillReceiveProps(properties), render and componentDidUpdate of the
\* Button at place i
MultiReceiveProps(i, properties) ==
    /\ i \in DOMAIN instances
    /\ LET sid == instances[i].styleId
           prevent == PreventFocusStyle(properties)
           st == StateOnReceiveProps(instances[i].state, properties)
       IN  /\ registry' = RegistryOnReceiveProps(registry, sid, properties, prevent)
           /\ instances' =
                 WithProp(instances, i,
                          [ props |-> properties,
                            state |-> st,
                            preventFocusStyleForTouchAndClick |-> prevent,
                            styleId |-> sid,
                            rendered |-> ButtonRender(properties, st, FALSE, FALSE,
                                                      prevent, sid) ])
    /\ lastEvent' = [type |-> "props", arg |-> i]
    /\ trace' = << "componentWillReceiveProps" >> \o RenderSteps
    /\ UNCHANGED <<component, lifecycle, props, state, focused, mouseDownOnButton,
                   preventFocusStyleForTouchAndClick, styleId, rendered,
                   pressedSinceRender, touchHeld>>

\* componentWillUnmount of the Button at place i
MultiUnmount(i) ==
    /\ i \in DOMAIN instances
    /\ registry' = RegistryOnUnmount(registry, instances[i].styleId)
    /\ instances' = omit(instances, {i})
    /\ lastEvent' = [type |-> "unmount", arg |-> i]
    /\ trace' = << "componentWillUnmount" >>
    /\ UNCHANGED <<component, lifecycle, props, state, focused, mouseDownOnButton,
                   preventFocusStyleForTouchAndClick, styleId, rendered,
                   pressedSinceRender, touchHeld>>

InitMulti == Init /\ component = "Button"

NextMulti ==
    \/ \E i \in DOMAIN MultiRootNodeIDs, properties \in MultiProps :
          MultiMount(i, properties)
    \/ \E i \in DOMAIN MultiRootNodeIDs, properties \in MultiProps :
          MultiReceiveProps(i, properties)
    \/ \E i \in DOMAIN MultiRootNodeIDs : MultiUnmount(i)

SpecMulti == InitMulti /\ [][NextMulti]_vars

-----------------------------------------------------------------------------
(* Vocabulary of the properties *)

Range(seq) == {seq[i] : i \in 1..Len(seq)}

Last(S) == CHOOSE i \in S : \A j \in S : j <= i

\* the layered shallow merge of the style objects of `layers`, in order: every
\* property takes its value from the last layer that has it
LayerMerge(layers) ==
    [k \in UNION {DOMAIN layers[i] : i \in 1..Len(layers)} |->
        layers[Last({i \in 1..Len(layers) : k \in DOMAIN layers[i]})][k]]

ButtonMounted == component = "Button" /\ lifecycle = "mounted"

Variant(plain, primary) == IF props["primary"] THEN style[primary] ELSE style[plain]

\* base style, then props.style
BaseLayers == << Variant("style", "primaryStyle"), StyleProp(props, "style") >>

ActiveLayers ==
    << Variant("activeStyle", "primaryActiveStyle"), StyleProp(props, "activeStyle") >>

FocusLayers ==
    << Variant("focusStyle", "primaryFocusStyle"), StyleProp(props, "focusStyle") >>

DisabledLayers ==
    << Variant("disabledStyle", "primaryDisabledStyle"), StyleProp(props, "disabledStyle") >>

\* the values only the active layer or the focus layer bring into a style
ActiveOrFocusValues ==
    {"activeStyle", "primaryActiveStyle", "props.activeStyle",
     "focusStyle", "primaryFocusStyle", "props.focusStyle"}

\* the last dispatch rendered
Rendered == "render" \in Range(trace)

\* the rules the registry holds under an id
RulesUnder(id) == SelectSeq(registry, LAMBDA rule : rule.id = id)

-----------------------------------------------------------------------------
(* C1 *)

\* C1: whenever the current props of a Button have disabled = true, the
\* rendered style is the base style, then props.style, then the variant's
\* disabledStyle, then props.disabledStyle, later layers winning; no value of
\* the active layer or of the focus layer is in it, whatever active, focused
\* and mouseDownOnButton were when it was rendered.
C1_DisabledShortCircuits ==
    (ButtonMounted /\ props["disabled"]) =>
        /\ rendered.element["style"] = LayerMerge(BaseLayers \o DisabledLayers)
        /\ \A k \in DOMAIN rendered.element["style"] :
              rendered.element["style"][k] \notin ActiveOrFocusValues

\* a disabled Button rendered by a focus event while active, with a
\* disabledStyle override
C1_Witness ==
    /\ ButtonMounted
    /\ props["disabled"]
    /\ has(props, "disabledStyle")
    /\ state.active
    /\ lastEvent.type = "focus"
    /\ rendered.focused

-----------------------------------------------------------------------------
(* C2 *)

\* C2 as stated: with preventFocusStyleForTouchAndClick = true, whenever an
\* onMouseDown (of any button) was dispatched since the last render and an
\* onFocus follows, the render of that focus does not apply the focus layer
\* and the rendered style is the base style merged with props.style.
C2_AnyMouseDownSuppressesFocus ==
    [][ ( /\ ButtonMounted
          /\ lastEvent'.type = "focus"
          /\ pressedSinceRender # {}
          /\ preventFocusStyleForTouchAndClick )
        => ( /\ rendered'.branch # "focus"
             /\ rendered'.element["style"] = LayerMerge(BaseLayers) ) ]_vars

\* C2, amended: whenever an onMouseDown of the primary button (event.button = 0)
\* was dispatched since the last render and an onFocus follows, the render of
\* that focus does not apply the focus layer; and when the Button is neither
\* disabled nor active, the rendered style is the base style merged with
\* props.style.
C2_PrimaryMouseDownSuppressesFocus ==
    [][ ( /\ ButtonMounted
          /\ lastEvent'.type = "focus"
          /\ 0 \in pressedSinceRender )
        => ( /\ rendered'.branch # "focus"
             /\ \A k \in DOMAIN rendered'.element["style"] :
                   rendered'.element["style"][k] \notin
                       {"focusStyle", "primaryFocusStyle", "props.focusStyle"}
             /\ (~props["disabled"] /\ ~state.active)
                   => rendered'.element["style"] = LayerMerge(BaseLayers) ) ]_vars

\* a focus rendered with the press recorded, on an enabled Button that is not
\* active and has preventFocusStyleForTouchAndClick = true
C2_Witness ==
    /\ ButtonMounted
    /\ lastEvent.type = "focus"
    /\ rendered.focused
    /\ rendered.mouseDownOnButton
    /\ preventFocusStyleForTouchAndClick
    /\ ~props["disabled"]
    /\ ~state.active
    /\ rendered.branch = "plain"

-----------------------------------------------------------------------------
(* C3 *)

\* C3 as stated: with preventFocusStyleForTouchAndClick = true and an enabled
\* Button, an onFocus with no onMouseDown dispatched since the last render is
\* rendered with the focus layer: base style, props.style, the variant's
\* focusStyle, props.focusStyle.
C3_FocusWithoutPressShowsFocus ==
    [][ ( /\ ButtonMounted
          /\ lastEvent'.type = "focus"
          /\ pressedSinceRender = {}
          /\ preventFocusStyleForTouchAndClick
          /\ ~props["disabled"] )
        => ( /\ rendered'.branch = "focus"
             /\ rendered'.element["style"] = LayerMerge(BaseLayers \o FocusLayers) ) ]_vars

\* C3, amended: the same, for a Button that is not active.
C3_InactiveFocusWithoutPressShowsFocus ==
    [][ ( /\ ButtonMounted
          /\ lastEvent'.type = "focus"
          /\ pressedSinceRender = {}
          /\ preventFocusStyleForTouchAndClick
          /\ ~props["disabled"]
          /\ ~state.active )
        => ( /\ rendered'.branch = "focus"
             /\ rendered'.element["style"] = LayerMerge(BaseLayers \o FocusLayers) ) ]_vars

\* a primary Button with a focusStyle override, rendered by a focus event with
\* the focus layer
C3_Witness ==
    /\ ButtonMounted
    /\ lastEvent.type = "focus"
    /\ props["primary"]
    /\ has(props, "focusStyle")
    /\ preventFocusStyleForTouchAndClick
    /\ ~rendered.mouseDownOnButton
    /\ rendered.branch = "focus"
    /\ rendered.element["style"]["boxShadow"] = "props.focusStyle"

-----------------------------------------------------------------------------
(* C4 *)

\* C4: between dispatches focused is false; after a dispatch that re-rendered,
\* mouseDownOnButton is false too; and a dispatch whose render applied the
\* focus layer is the dispatch of an onFocus: the render of a props update, of
\* a touch event or of a blur never applies it.
C4_FocusStyleOnlyOnce ==
    ButtonMounted =>
        /\ ~focused
        /\ ("componentDidUpdate" \in Range(trace)) => ~mouseDownOnButton
        /\ (Rendered /\ rendered.branch = "focus") => lastEvent.type = "focus"

\* the focus layer was applied by the render of a focus event, and both fields
\* are reset
C4_Witness ==
    /\ ButtonMounted
    /\ lastEvent.type = "focus"
    /\ rendered.branch = "focus"
    /\ rendered.focused
    /\ ~focused
    /\ ~mouseDownOnButton

-----------------------------------------------------------------------------
(* C5 *)

\* C5: while a Button is mounted the registry holds exactly four rules under
\* its style-id: hover, active, disabled hover and focus, in this order, also
\* after any number of props updates; once it is unmounted no rule is left
\* under that id.
C5_OneRegistration ==
    component = "Button" =>
        /\ lifecycle = "mounted" =>
             LET rules == RulesUnder(styleId)
             IN  /\ Len(rules) = 4
                 /\ [i \in 1..4 |-> rules[i].pseudoClass]
                       = << "hover", "active", "hover", "focus" >>
                 /\ {i \in 1..4 : has(rules[i], "disabled")} = {3}
        /\ lifecycle = "unmounted" => Len(RulesUnder(styleId)) = 0

\* a mounted Button after a props update
C5_Witness ==
    /\ ButtonMounted
    /\ lastEvent.type = "props"
    /\ Len(RulesUnder(styleId)) = 4

-----------------------------------------------------------------------------
(* C6 *)

\* the caller hook of each event
HookOf ==
    [ touchStart |-> "onTouchStart", touchEnd |-> "onTouchEnd",
      touchCancel |-> "onTouchCancel", mouseDown |-> "onMouseDown",
      focus |-> "onFocus", blur |-> "onBlur" ]

\* the steps of a handler that change the state of the instance
StateSteps ==
    {"focused = true", "focused = false", "forceUpdate", "setState active",
     "mouseDownOnButton = true"}

\* C6: when an event occurs on the Button and the caller supplied the hook of
\* that event, the hook is invoked, after every state-handling step of the
\* handler.
C6_EveryHookInvoked ==
    ButtonMounted =>
        \A e \in DOMAIN HookOf :
            (lastEvent.type = e /\ has(props, HookOf[e])) =>
                \E i \in 1..Len(trace) :
                    /\ trace[i] = "props." \o HookOf[e]
                    /\ \A j \in 1..Len(trace) : trace[j] \in StateSteps => j < i

-----------------------------------------------------------------------------
(* C7 *)

\* C7: an onTouchStart with more than one touch point leaves active as it was;
\* one with exactly one touch point on a Button that is not disabled sets
\* active and the render that follows applies the active layer; on a disabled
\* Button active stays as it was; and the caller's onTouchStart, when given, is
\* invoked in every case.
C7_TouchStart ==
    [][ (ButtonMounted /\ lastEvent'.type = "touchStart") =>
          /\ lastEvent'.arg > 1 => (state'.active = state.active /\ ~Rendered')
          /\ (lastEvent'.arg = 1 /\ ~props["disabled"]) =>
                /\ state'.active
                /\ Rendered'
                /\ rendered'.branch = "active"
                /\ rendered'.element["style"] = LayerMerge(BaseLayers \o ActiveLayers)
          /\ props["disabled"] => (state'.active = state.active /\ ~Rendered')
          /\ has(props, "onTouchStart") => "props.onTouchStart" \in Range(trace') ]_vars

\* a touchstart with several touch points on an enabled Button that is not
\* active, the caller's onTouchStart invoked
C7_Witness ==
    /\ ButtonMounted
    /\ lastEvent.type = "touchStart"
    /\ lastEvent.arg > 1
    /\ ~props["disabled"]
    /\ ~state.active
    /\ trace = << "props.onTouchStart" >>

-----------------------------------------------------------------------------
(* C8 *)

\* C8: the render of a Button that is not disabled takes exactly one of the
\* branches active, focus and plain: active iff state.active; focus iff focused
\* and not active and not mouseDownOnButton and
\* preventFocusStyleForTouchAndClick; plain otherwise; and the rendered style
\* is the base style with the layers of that branch.
C8_OneBranch ==
    (ButtonMounted /\ ~props["disabled"]) =>
        LET showFocus == /\ rendered.focused
                         /\ ~state.active
                         /\ ~rendered.mouseDownOnButton
                         /\ preventFocusStyleForTouchAndClick
        IN  /\ rendered.branch \in {"active", "focus", "plain"}
            /\ rendered.branch = "active" <=> state.active
            /\ rendered.branch = "focus" <=> showFocus
            /\ rendered.element["style"] =
                 LayerMerge(BaseLayers \o
                            (IF state.active THEN ActiveLayers
                             ELSE IF showFocus THEN FocusLayers
                             ELSE << >>))

\* an active Button rendered by a focus that, but for active, would show the
\* focus style
C8_Witness ==
    /\ ButtonMounted
    /\ ~props["disabled"]
    /\ state.active
    /\ lastEvent.type = "focus"
    /\ rendered.focused
    /\ ~rendered.mouseDownOnButton
    /\ preventFocusStyleForTouchAndClick
    /\ rendered.branch = "active"

-----------------------------------------------------------------------------
(* C9 *)

\* the props that configure the component itself
InternalProps ==
    StyleProps \cup {"className"} \cup {"primary", "preventFocusStyleForTouchAndClick"}
    \cup HandlerProps

\* C9: the props forwarded to the native button hold no style-related key, no
\* flag the component consumes (primary, preventFocusStyleForTouchAndClick) and
\* no handler the component intercepts, so the element keeps the handlers the
\* component synthesizes.
C9_NoInternalPropForwarded ==
    ButtonMounted =>
        /\ (DOMAIN state.childProps) \cap InternalProps = {}
        /\ \A h \in HandlerProps : rendered.element[h] \notin PropValues(h)

-----------------------------------------------------------------------------
(* C10 *)

\* C10: for Button and Placeholder alike, the childProps of a mounted instance
\* are the current props without the keys its sanitizer omits, with the current
\* props' values, and these are the attributes the rendered element carries.
C10_ChildPropsCurrent ==
    lifecycle = "mounted" =>
        LET omitted == IF component = "Button" THEN buttonOmitted ELSE placeholderOmitted
        IN  /\ DOMAIN state.childProps = (DOMAIN props) \ omitted
            /\ \A k \in DOMAIN state.childProps :
                  /\ state.childProps[k] = props[k]
                  /\ rendered.element[k] = props[k]

\* a Placeholder after a props update that brought a title
C10_Witness ==
    /\ component = "Placeholder"
    /\ lifecycle = "mounted"
    /\ lastEvent.type = "props"
    /\ has(props, "title")
    /\ has(rendered.element, "title")

-----------------------------------------------------------------------------
(* C11 *)

\* the values of the type attribute the component declares
buttonTypes == {"button", "submit", "reset"}

\* C11: when the caller gives no type (the default "button" stands in) or a
\* type that is none of button, submit and reset, the type attribute of the
\* rendered native button is "button".
C11_TypeFallsBackToButton ==
    (ButtonMounted /\ (props["type"] = "button" \/ props["type"] \notin buttonTypes))
        => rendered.element["type"] = "button"

-----------------------------------------------------------------------------
(* C12 *)

PlaceholderMounted == component = "Placeholder" /\ lifecycle = "mounted"

\* C12: the rendered style of a Placeholder is the default style, then
\* props.style and, only when _isDisabled is true, the default disabledStyle
\* and then props.disabledStyle, later layers winning; and neither
\* disabledStyle nor _isDisabled nor the caller's own style object reaches the
\* wrapping container.
C12_PlaceholderStyle ==
    PlaceholderMounted =>
        /\ rendered.element["style"] =
             LayerMerge(<< placeholderStyle.style, StyleProp(props, "style") >> \o
                        (IF props["_isDisabled"]
                         THEN << placeholderStyle.disabledStyle,
                                 StyleProp(props, "disabledStyle") >>
                         ELSE << >>))
        /\ (DOMAIN state.childProps) \cap {"style", "disabledStyle", "_isDisabled"} = {}
        /\ (DOMAIN rendered.element) \cap {"disabledStyle", "_isDisabled"} = {}

\* a disabled Placeholder with a disabledStyle override, which wins
C12_Witness ==
    /\ PlaceholderMounted
    /\ props["_isDisabled"]
    /\ has(props, "disabledStyle")
    /\ rendered.element["style"]["boxShadow"] = "props.disabledStyle"
    /\ rendered.element["style"]["border"] = "disabledStyle"

-----------------------------------------------------------------------------
(* C13 *)

\* the flag in force for the current props: their own value, else the shared
\* default
EffectivePrevent ==
    IF "preventFocusStyleForTouchAndClick" \in DOMAIN props
    THEN props["preventFocusStyleForTouchAndClick"]
    ELSE config.preventFocusStyleForTouchAndClick

\* C13: after mount and after every props update the four rules under the
\* Button's style-id are those of the current props: hover, active and
\* disabled hover are the variant's rule overridden by the caller's, and the
\* focus rule is "outline: 0" when the flag in force is true and the variant's
\* focusStyle overridden by props.focusStyle when it is false.
C13_RulesOfCurrentProps ==
    ButtonMounted =>
        LET rules == RulesUnder(styleId)
        IN  /\ Len(rules) = 4
            /\ rules[1].style =
                 LayerMerge(<< Variant("hoverStyle", "primaryHoverStyle"),
                               StyleProp(props, "hoverStyle") >>)
            /\ rules[2].style = LayerMerge(ActiveLayers)
            /\ rules[3].style =
                 LayerMerge(<< Variant("disabledHoverStyle", "primaryDisabledHoverStyle"),
                               StyleProp(props, "disabledHoverStyle") >>)
            /\ rules[4].style =
                 IF EffectivePrevent THEN [outline |-> "0"] ELSE LayerMerge(FocusLayers)

\* after a props update, a Button whose props turn the flag off and override
\* the focus style: the focus rule carries the override
C13_Witness ==
    /\ ButtonMounted
    /\ lastEvent.type = "props"
    /\ has(props, "focusStyle")
    /\ ~EffectivePrevent
    /\ RulesUnder(styleId)[4].style["boxShadow"] = "props.focusStyle"

-----------------------------------------------------------------------------
(* C14 *)

\* C14: onTouchEnd and onTouchCancel both leave active false, the render that
\* follows applies no active layer, and both invoke props.onTouchEnd when the
\* caller gave it (and nothing else of the caller's).
C14_TouchEndAndCancel ==
    [][ (ButtonMounted /\ lastEvent'.type \in {"touchEnd", "touchCancel"}) =>
          /\ ~state'.active
          /\ Rendered'
          /\ rendered'.branch # "active"
          /\ \A k \in DOMAIN rendered'.element["style"] :
                rendered'.element["style"][k] \notin
                    {"activeStyle", "primaryActiveStyle", "props.activeStyle"}
          /\ trace' = << "setState active" >>
                      \o (IF has(props, "onTouchEnd") THEN << "props.onTouchEnd" >>
                          ELSE << >>)
                      \o << "render", "componentDidUpdate" >> ]_vars

\* a touchcancel on a Button whose caller gave onTouchEnd: that hook ran
C14_Witness ==
    /\ ButtonMounted
    /\ lastEvent.type = "touchCancel"
    /\ has(props, "onTouchEnd")
    /\ "props.onTouchEnd" \in Range(trace)
    /\ ~state.active
    /\ ~props["disabled"]
    /\ rendered.branch = "plain"

-----------------------------------------------------------------------------
(* C15 *)

\* C15: an onMouseDown sets mouseDownOnButton only when the event's button is
\* 0 and the Button is not disabled, and leaves it as it was otherwise; it
\* changes neither active nor focused and renders nothing; and the caller's
\* onMouseDown, when given, is invoked in every case.
C15_MouseDown ==
    [][ (ButtonMounted /\ lastEvent'.type = "mouseDown") =>
          /\ mouseDownOnButton' =
               (mouseDownOnButton \/ (lastEvent'.arg = 0 /\ ~props["disabled"]))
          /\ state' = state
          /\ focused' = focused
          /\ rendered' = rendered
          /\ ~Rendered'
          /\ has(props, "onMouseDown") => "props.onMouseDown" \in Range(trace') ]_vars

\* a primary-button mousedown on a disabled Button: the caller's hook ran and
\* the press is not recorded
C15_Witness ==
    /\ ButtonMounted
    /\ lastEvent.type = "mouseDown"
    /\ lastEvent.arg = 0
    /\ props["disabled"]
    /\ trace = << "props.onMouseDown" >>
    /\ ~mouseDownOnButton

-----------------------------------------------------------------------------
(* C16 *)

\* C16: an onBlur leaves focused false and active false and invokes the
\* caller's onBlur when given; the render that follows a blur on a Button that
\* is not disabled is the plain one: the base style alone, with neither the
\* active layer nor the focus layer, whatever the state before the blur.
C16_Blur ==
    [][ (ButtonMounted /\ lastEvent'.type = "blur") =>
          /\ ~focused'
          /\ ~state'.active
          /\ Rendered'
          /\ ~rendered'.focused
          /\ trace' = << "focused = false", "setState active" >>
                      \o (IF has(props, "onBlur") THEN << "props.onBlur" >> ELSE << >>)
                      \o << "render", "componentDidUpdate" >>
          /\ ~props["disabled"] =>
                /\ rendered'.branch = "plain"
                /\ rendered'.element["style"] = LayerMerge(BaseLayers)
                /\ \A k \in DOMAIN rendered'.element["style"] :
                      rendered'.element["style"][k] \notin ActiveOrFocusValues ]_vars

\* a blur that ended a touch press on an enabled Button whose caller gave
\* onBlur: the hook ran and the render is the plain one
C16_Witness ==
    /\ ButtonMounted
    /\ lastEvent.type = "blur"
    /\ has(props, "onBlur")
    /\ has(props, "activeStyle")
    /\ "props.onBlur" \in Range(trace)
    /\ ~props["disabled"]
    /\ ~state.active
    /\ rendered.branch = "plain"

-----------------------------------------------------------------------------
(* C17 *)

\* C17: every onFocus sets focused to true and forces an update although no
\* props and no state changed; the render it forces is part of the dispatch of
\* that focus event (so it precedes the handling of any later event), comes
\* after the assignment and reads focused = true.
C17_FocusForcesRender ==
    [][ (ButtonMounted /\ lastEvent'.type = "focus") =>
          /\ props' = props
          /\ state' = state
          /\ Rendered'
          /\ rendered'.focused
          /\ trace' = << "focused = true", "forceUpdate" >>
                      \o (IF has(props, "onFocus") THEN << "props.onFocus" >> ELSE << >>)
                      \o << "render", "componentDidUpdate" >> ]_vars

\* a focus on an enabled Button with no press before it and the focus style
\* kept for the keyboard: the forced render shows the focus layer
C17_Witness ==
    /\ ButtonMounted
    /\ lastEvent.type = "focus"
    /\ Rendered
    /\ rendered.focused
    /\ rendered.branch = "focus"
    /\ has(props, "onFocus")

-----------------------------------------------------------------------------
(* C19 *)

\* C19: focus styling has one source at any time. The flag render reads is
\* the flag of the current props (or the configured default), and it is the
\* flag the registered focus rule was built with: when it is false the last
\* render applied no inline focus layer and the :focus rule carries the focus
\* style; when it is true the :focus rule is "outline: 0" alone. This holds
\* right after a props update that flips the flag as well.
C19_SingleFocusSource ==
    ButtonMounted =>
        LET rules == RulesUnder(styleId)
        IN  /\ preventFocusStyleForTouchAndClick = EffectivePrevent
            /\ Len(rules) = 4
            /\ ~EffectivePrevent =>
                  /\ rendered.branch # "focus"
                  /\ \A k \in DOMAIN rendered.element["style"] :
                        rendered.element["style"][k] \notin
                            {"focusStyle", "primaryFocusStyle", "props.focusStyle"}
                  /\ rules[4].style = LayerMerge(FocusLayers)
            /\ EffectivePrevent => rules[4].style = [outline |-> "0"]

\* after a props update whose props give the flag as false: the
\* :focus rule now carries the focus style and the render is without it
C19_Witness ==
    /\ ButtonMounted
    /\ lastEvent.type = "props"
    /\ has(props, "preventFocusStyleForTouchAndClick")
    /\ ~preventFocusStyleForTouchAndClick
    /\ RulesUnder(styleId)[4].style = LayerMerge(FocusLayers)
    /\ rendered.branch = "plain"

-----------------------------------------------------------------------------
(* C20 *)

\* C20: the active layer is rendered only during a press: whenever the last
\* render took the active branch, the Button is not disabled and a touchstart
\* with one touch point, handled while the Button was not disabled, has had no
\* touchend, touchcancel or blur after it; and a props update leaves
\* state.active as it was.
C20_ActiveOnlyDuringPress ==
    [][ /\ (ButtonMounted' /\ rendered'.branch = "active") =>
              (~props'["disabled"] /\ touchHeld')
        /\ (ButtonMounted /\ lastEvent'.type = "props") =>
              state'.active = state.active ]_vars

\* a props update enabled again a Button that was disabled during a press:
\* the press is still on and the render shows the active layer again
C20_Witness ==
    /\ ButtonMounted
    /\ lastEvent.type = "props"
    /\ ~props["disabled"]
    /\ state.active
    /\ touchHeld
    /\ rendered.branch = "active"

-----------------------------------------------------------------------------
(* C18 *)

\* the live instances are registered under style-ids that differ pairwise
DistinctStyleIds(insts) ==
    \A i, j \in DOMAIN insts : i # j => insts[i].styleId # insts[j].styleId

\* every live instance has its four rules in the registry
FourRulesEach(insts, reg) ==
    \A i \in DOMAIN insts :
        Len(SelectSeq(reg, LAMBDA rule : rule.id = insts[i].styleId)) = 4

\* C18: with several Buttons mounted under pairwise distinct style-ids, a
\* mount, a props update or an unmount of one of them leaves the four rules
\* under the style-id of every other live instance as they were; every live
\* instance's rendered className contains its own style-id; and an instance
\* keeps its style-id for as long as it is mounted.
C18_InstancesDoNotCollide ==
    [][ ( /\ DistinctStyleIds(instances) /\ DistinctStyleIds(instances')
          /\ FourRulesEach(instances, registry) ) =>
          /\ FourRulesEach(instances', registry')
          /\ \A j \in (DOMAIN instances \cap DOMAIN instances') \ {lastEvent'.arg} :
                /\ instances'[j] = instances[j]
                /\ SelectSeq(registry', LAMBDA rule : rule.id = instances[j].styleId)
                     = SelectSeq(registry, LAMBDA rule : rule.id = instances[j].styleId)
          /\ \A j \in DOMAIN instances' :
                /\ instances'[j].styleId \in Range(instances'[j].rendered.element["className"])
                /\ j \in DOMAIN instances => instances'[j].styleId = instances[j].styleId
      ]_vars

\* two Buttons live under different style-ids, the last step a props update
\* of the first that changed its hover rule: the second still has its own
\* four rules, and both render their own style-id
C18_Witness ==
    /\ Cardinality(DOMAIN instances) >= 2
    /\ DistinctStyleIds(instances)
    /\ FourRulesEach(instances, registry)
    /\ lastEvent.type = "props"
    /\ lastEvent.arg = 1
    /\ {1, 2} \subseteq DOMAIN instances
    /\ has(instances[1].props, "hoverStyle")
    /\ ~has(instances[2].props, "hoverStyle")
    /\ instances[2].props["primary"]
    /\ Len(registry) = 8
    /\ registry[1].id = instances[2].styleId
    /\ \A j \in DOMAIN instances :
          instances[j].styleId \in Range(instances[j].rendered.element["className"])

====
